---- MODULE Spec2Model ----
(***************************************************************************)
(* Model of the Kubernetes watch connector of PainChain                    *)
(* (backend/connectors/kubernetes/connector_watch.py).                     *)
(*                                                                         *)
(* One sync invocation (fetch_and_store_changes) builds a connector with   *)
(* an empty _resource_cache, reads the stored resourceVersions once and    *)
(* runs one watch thread per kind.  A watch thread, for every streamed     *)
(* event: saves the resourceVersion (a read of connection.config followed  *)
(* by a write of the whole dict), evaluates the significance filter        *)
(* (which updates the cache), and on significance stores a ChangeEvent     *)
(* (a query for the event_id followed by an insert).                       *)
(***************************************************************************)
EXTENDS Integers, Sequences, FiniteSets, TLC

----------------------------------------------------------------------------
(* Bounds of the model *)

\* number of changes the cluster makes (each gets the next resourceVersion)
MaxRV == 2
\* number of sync invocations that are started
MaxCycles == 2
\* number of distinct objects a kind takes
MaxVals == 4
\* changes of the cluster and distinct objects while two syncs overlap
MaxRVOverlap == 2
MaxValsOverlap == 1
\* number of sync invocations that run two kinds in parallel
MaxCyclesKinds == 1
\* changes of the cluster and sync invocations of the filter runs
MaxRVFilter == 3
MaxCyclesFilter == 1
\* distinct Pod objects of the runs with Pods of two containers and Pods
\* whose container has terminated without a failure
MaxValsPods == 7
\* ticks of the clock and runs of sync_all_connections of the scheduler runs
MaxTicks == 2
MaxBeats == 1

----------------------------------------------------------------------------
(* Values *)

\* the ten watch operations of fetch_and_store_changes
Kinds == {"pods", "deployments", "statefulsets", "daemonsets", "services",
          "configmaps", "secrets", "ingresses", "roles", "rolebindings"}

\* sync invocations that may run at the same time
Slots == {1, 2}

\* object names of the modelled cluster, in list order
NameSeq == <<"a", "b">>
Names == {NameSeq[i] : i \in 1..Len(NameSeq)}

Namespace == "default"
OtherNamespace == "kube-system"
\* the namespace of the object of each name of the modelled cluster
NamespaceOf(n) == IF n = "a" THEN Namespace ELSE OtherNamespace
ClusterName == "default"
ConnectionId == 1

\* no poll lock is stored under poll_lock:{connection_id}
NoHolder == 0

\* python None as a resourceVersion (falsy, like the absent key)
NoToken == 0
\* python None where the code compares it with an int / a str / a list
NoneInt == -1
NoneStr == "None"
NoneList == <<"None">>
\* an empty python dict
EmptyDict == [x \in {} |-> 0]

NoObs == [type |-> "NONE"]
NoSummary == <<>>

\* ConnectionConfig of the API, as update.config.dict() gives it
Tokens == {"token-1", "token-2"}
ConnectionConfig(token) == [token |-> token, poll_interval |-> 300,
                            repos |-> "", branches |-> ""]

ServiceAccountToken == "kubernetes.io/service-account-token"

\* the states of a container status
Container(waiting, terminated, restarts) ==
    [waiting |-> waiting, terminated |-> terminated, restart_count |-> restarts]

\* the objects the modelled cluster can hold, per kind
ObjSeq(k) ==
    CASE k = "pods" ->
           << [container_statuses |-> <<Container(NoneStr, NoneStr, 0)>>],
              [container_statuses |-> <<Container("CrashLoopBackOff", NoneStr, 1)>>],
              [container_statuses |-> <<Container(NoneStr, NoneStr, 1)>>],
              [container_statuses |-> <<Container("ContainerCreating", NoneStr, 0)>>],
              [container_statuses |-> <<Container(NoneStr, NoneStr, 2),
                                        Container(NoneStr, NoneStr, 0)>>],
              [container_statuses |-> <<Container(NoneStr, NoneStr, 2),
                                        Container(NoneStr, NoneStr, 1)>>],
              [container_statuses |-> <<Container(NoneStr, "Completed", 1)>>] >>
      [] k \in {"deployments", "statefulsets", "daemonsets"} ->
           << [images |-> <<"app:1.0">>, replicas |-> 3],
              [images |-> <<"app:1.1">>, replicas |-> 3],
              [images |-> <<"app:1.0">>, replicas |-> 1],
              [images |-> <<"app:1.1">>, replicas |-> 1] >>
      [] k = "services" ->
           << [type |-> "ClusterIP", ports |-> <<"80/TCP/8080">>],
              [type |-> "NodePort",  ports |-> <<"80/TCP/8080">>],
              [type |-> "ClusterIP", ports |-> <<"80/TCP/9090">>] >>
      [] k = "configmaps" ->
           << [data |-> "k=v1"], [data |-> "k=v2"], [data |-> NoneStr] >>
      [] k = "secrets" ->
           << [type |-> "Opaque", data |-> [x \in {"k1"} |-> "v1"]],
              [type |-> "Opaque", data |-> [x \in {"k1"} |-> "v2"]],
              [type |-> "Opaque", data |-> [x \in {"k1", "k2"} |-> "v1"]],
              [type |-> ServiceAccountToken, data |-> [x \in {"k1"} |-> "v1"]] >>
      [] k = "ingresses" ->
           << [hosts |-> {"a.example"}], [hosts |-> {"a.example", "b.example"}] >>
      [] k \in {"roles", "rolebindings"} ->
           << [rules |-> "r1"], [rules |-> "r2"] >>

ObjVals(k) == {ObjSeq(k)[i] : i \in 1..Len(ObjSeq(k))}

VARIABLES
    hist,      \* the cluster's change history; hist[i] has resourceVersion i
    cfg,       \* connection.config['resource_versions'], per kind
    events,    \* the rows of the ChangeEvent table, in insertion order
    active,    \* the kinds whose watch threads the model runs
    names,     \* the object names the modelled cluster uses
    limit,     \* the bounds of the run: cluster changes, sync invocations
               \* and distinct objects per kind
    slots,     \* the sync invocations the model runs
    sync,      \* per slot: "idle" or "running"
    cycles,    \* number of sync invocations started
    sess,      \* per slot and kind: the watch thread
    cache,     \* per slot: the connector's _resource_cache
    seen,      \* per slot: reduced summary of the last processed observation
    expired,   \* kinds whose checkpoint the 410 handler cleared last
    lock,      \* the invocation whose poll lock is the stored one, or NoHolder
    namespaces,\* the connection's target namespace set (empty = all)
    conf,      \* connection.config without its 'resource_versions' entry
    enabled,   \* connection.enabled
    last_sync, \* connection.last_sync: NoneInt or the tick of the last success
    now,       \* the clock, in ticks of TickSeconds
    sched      \* sync_all_connections: its runs and what the last run triggered

vars == <<hist, cfg, events, active, names, limit, slots, sync, cycles, sess, cache, seen,
          expired, lock, namespaces, conf, enabled, last_sync, now, sched>>

----------------------------------------------------------------------------
(* python dict helpers *)

DictGet(d, f, default) == IF f \in DOMAIN d THEN d[f] ELSE default

DictSet(d, f, v) == [x \in (DOMAIN d) \cup {f} |-> IF x = f THEN v ELSE d[x]]

\* sorted(...) of a set of strings, by the order of the strings of the model
StrOrder == <<"a.example", "b.example", "k1", "k2">>
Sorted(S) == SelectSeq(StrOrder, LAMBDA x : x \in S)

\* hashlib.md5(json.dumps(data, sort_keys=True)).hexdigest(): one digest per
\* content (the model has no colliding contents)
Md5(data) == <<"md5", data>>

----------------------------------------------------------------------------
(* The significance filters.  Each returns the decision and the cache as   *)
(* the call leaves it.                                                     *)

Decision(sig, c) == [sig |-> sig, cache |-> c]

\* f"{namespace}:{name}" for pods and deployments, f"{namespace}:{name}:{kind}"
\* for the other cached kinds
CacheKey(k, o) ==
    <<o.namespace, o.name,
      CASE k \in {"pods", "deployments"} -> ""
        [] k = "statefulsets" -> "statefulset"
        [] k = "daemonsets" -> "daemonset"
        [] k = "services" -> "service"
        [] k = "configmaps" -> "configmap"
        [] k = "secrets" -> "secret"
        [] k = "ingresses" -> "ingress"
        [] OTHER -> k>>

WaitingReasons == {"CrashLoopBackOff", "ImagePullBackOff", "ErrImagePull",
                   "CreateContainerConfigError", "InvalidImageName"}
TerminatedReasons == {"Error", "OOMKilled"}

\* the loop over pod.status.container_statuses, from container i on
RECURSIVE PodContainers(_, _, _, _)
PodContainers(cs, i, key, c) ==
    IF i > Len(cs) THEN Decision(FALSE, c)
    ELSE IF cs[i].waiting \in WaitingReasons THEN Decision(TRUE, c)
    ELSE IF cs[i].terminated \in TerminatedReasons THEN Decision(TRUE, c)
    ELSE IF cs[i].restart_count > 0
            /\ cs[i].restart_count
                 > DictGet(DictGet(c, key, EmptyDict), "restart_count", 0)
         THEN Decision(TRUE,
                DictSet(c, key, DictSet(DictGet(c, key, EmptyDict),
                                        "restart_count", cs[i].restart_count)))
    ELSE PodContainers(cs, i + 1, key, c)

is_significant_pod_event(type, o, c) ==
    IF type \in {"ADDED", "DELETED"} THEN Decision(TRUE, c)
    ELSE IF type = "MODIFIED"
         THEN PodContainers(o.obj.container_statuses, 1, CacheKey("pods", o), c)
         ELSE Decision(FALSE, c)

\* a filter of deployments that looks at the replica count only
replicas_only_deployment_event(type, o, c) ==
    IF type \in {"ADDED", "DELETED"} THEN Decision(TRUE, c)
    ELSE IF type = "MODIFIED"
    THEN LET key == CacheKey("deployments", o)
             cached_data == DictGet(c, key, EmptyDict)
             cached_replicas == DictGet(cached_data, "replicas", NoneInt)
             entry == [images |-> o.obj.images, replicas |-> o.obj.replicas]
         IN  IF o.obj.replicas # cached_replicas
             THEN Decision(TRUE, DictSet(c, key, entry))
             ELSE Decision(FALSE, c)
    ELSE Decision(FALSE, c)

is_significant_deployment_event(type, o, c) ==
    IF type \in {"ADDED", "DELETED"} THEN Decision(TRUE, c)
    ELSE IF type = "MODIFIED"
    THEN LET key == CacheKey("deployments", o)
             current_images == o.obj.images
             cached_data == DictGet(c, key, EmptyDict)
             cached_images == DictGet(cached_data, "images", <<>>)
             cached_replicas == DictGet(cached_data, "replicas", NoneInt)
             entry == [images |-> current_images, replicas |-> o.obj.replicas]
         IN  IF current_images # cached_images
             THEN Decision(TRUE, DictSet(c, key, entry))
             ELSE IF o.obj.replicas # cached_replicas
             THEN Decision(TRUE, DictSet(c, key, entry))
             ELSE Decision(FALSE, c)
    ELSE Decision(FALSE, c)

has_significant_workload_changes(type, o, k, c) ==
    IF type # "MODIFIED" THEN Decision(FALSE, c)
    ELSE LET key == CacheKey(k, o)
             current_images == o.obj.images
             cached_images == DictGet(DictGet(c, key, EmptyDict), "images", <<>>)
         IN  IF current_images # cached_images
             THEN Decision(TRUE, DictSet(c, key, [images |-> current_images]))
             ELSE Decision(FALSE, c)

has_significant_service_changes(type, o, c) ==
    IF type # "MODIFIED" THEN Decision(FALSE, c)
    ELSE LET key == CacheKey("services", o)
             cached_data == DictGet(c, key, EmptyDict)
         IN  IF o.obj.type # DictGet(cached_data, "type", NoneStr)
                \/ o.obj.ports # DictGet(cached_data, "ports", NoneList)
             THEN Decision(TRUE, DictSet(c, key,
                      [type |-> o.obj.type, ports |-> o.obj.ports]))
             ELSE Decision(FALSE, c)

\* a filter of configmaps that hashes the whole object
configmap_object_changes(type, o, c) ==
    IF type # "MODIFIED" THEN Decision(FALSE, c)
    ELSE LET key == CacheKey("configmaps", o)
             data_hash == Md5(o.obj)
             cached_hash == DictGet(DictGet(c, key, EmptyDict),
                                    "data_hash", NoneList)
         IN  IF data_hash # cached_hash
             THEN Decision(TRUE, DictSet(c, key, [data_hash |-> data_hash]))
             ELSE Decision(FALSE, c)

has_configmap_data_changes(type, o, c) ==
    IF type # "MODIFIED" THEN Decision(FALSE, c)
    ELSE LET key == CacheKey("configmaps", o)
             data_hash == IF o.obj.data = NoneStr THEN NoneList
                          ELSE Md5(o.obj.data)
             cached_hash == DictGet(DictGet(c, key, EmptyDict),
                                    "data_hash", NoneList)
         IN  IF data_hash # cached_hash
             THEN Decision(TRUE, DictSet(c, key, [data_hash |-> data_hash]))
             ELSE Decision(FALSE, c)

has_secret_key_changes(type, o, c) ==
    IF type # "MODIFIED" THEN Decision(FALSE, c)
    ELSE LET key == CacheKey("secrets", o)
             current_keys == Sorted(DOMAIN o.obj.data)
             cached_keys == DictGet(DictGet(c, key, EmptyDict), "keys", <<>>)
         IN  IF current_keys # cached_keys
             THEN Decision(TRUE, DictSet(c, key, [keys |-> current_keys]))
             ELSE Decision(FALSE, c)

has_ingress_rule_changes(type, o, c) ==
    IF type # "MODIFIED" THEN Decision(FALSE, c)
    ELSE LET key == CacheKey("ingresses", o)
             current_hosts == Sorted(o.obj.hosts)
             cached_hosts == DictGet(DictGet(c, key, EmptyDict), "hosts", <<>>)
         IN  IF current_hosts # cached_hosts
             THEN Decision(TRUE, DictSet(c, key, [hosts |-> current_hosts]))
             ELSE Decision(FALSE, c)

\* a loop condition that lets only ADDED through unconditionally
AddedOr(type, d, c) ==
    IF type = "ADDED" THEN Decision(TRUE, c) ELSE d

\* "if event_type in ['ADDED', 'DELETED'] or self._has_..._changes(...)"
AddedDeletedOr(type, d, c) ==
    IF type \in {"ADDED", "DELETED"} THEN Decision(TRUE, c) ELSE d

\* loop conditions of which those of roles and rolebindings let only ADDED
\* and DELETED through
SignificantDiffingRoles(k, o, c) ==
    CASE k = "pods" -> is_significant_pod_event(o.type, o, c)
      [] k = "deployments" -> is_significant_deployment_event(o.type, o, c)
      [] k \in {"statefulsets", "daemonsets"} ->
           AddedDeletedOr(o.type, has_significant_workload_changes(o.type, o, k, c), c)
      [] k = "services" ->
           AddedDeletedOr(o.type, has_significant_service_changes(o.type, o, c), c)
      [] k = "configmaps" ->
           AddedDeletedOr(o.type, has_configmap_data_changes(o.type, o, c), c)
      [] k = "secrets" ->
           AddedDeletedOr(o.type, has_secret_key_changes(o.type, o, c), c)
      [] k = "ingresses" ->
           AddedDeletedOr(o.type, has_ingress_rule_changes(o.type, o, c), c)
      [] k \in {"roles", "rolebindings"} ->
           Decision(o.type \in {"ADDED", "DELETED"}, c)

\* the condition each _watch_* loop tests before it calls the store
Significant(k, o, c) ==
    CASE k = "pods" -> is_significant_pod_event(o.type, o, c)
      [] k = "deployments" -> is_significant_deployment_event(o.type, o, c)
      [] k \in {"statefulsets", "daemonsets"} ->
           AddedDeletedOr(o.type, has_significant_workload_changes(o.type, o, k, c), c)
      [] k = "services" ->
           AddedDeletedOr(o.type, has_significant_service_changes(o.type, o, c), c)
      [] k = "configmaps" ->
           AddedDeletedOr(o.type, has_configmap_data_changes(o.type, o, c), c)
      [] k = "secrets" ->
           AddedDeletedOr(o.type, has_secret_key_changes(o.type, o, c), c)
      [] k = "ingresses" ->
           AddedDeletedOr(o.type, has_ingress_rule_changes(o.type, o, c), c)
      [] k \in {"roles", "rolebindings"} ->
           Decision(o.type \in {"ADDED", "MODIFIED", "DELETED"}, c)

\* an empty deny-list
DeniedNothing(k, o) == FALSE

\* the deny-list: "if secret.type == ...service-account-token: continue"
Denied(k, o) == k = "secrets" /\ o.obj.type = ServiceAccountToken

----------------------------------------------------------------------------
(* The store *)

\* 'pod', 'deployment' and resource_kind.lower() of the generic store
KindLabel(k) ==
    CASE k = "pods" -> "pod"
      [] k = "deployments" -> "deployment"
      [] k = "statefulsets" -> "statefulset"
      [] k = "daemonsets" -> "daemonset"
      [] k = "services" -> "service"
      [] k = "configmaps" -> "configmap"
      [] k = "secrets" -> "secret"
      [] k = "ingresses" -> "ingress"
      [] k = "roles" -> "role"
      [] k = "rolebindings" -> "rolebinding"

\* an event id that also depends on the transition
EventIdWithType(k, o) ==
    <<ClusterName, o.namespace, KindLabel(k), o.name, o.rv, o.type>>

\* f"{cluster_name}:{namespace}:{kind}:{name}:{resource_version}"
EventId(k, o) == <<ClusterName, o.namespace, KindLabel(k), o.name, o.rv>>

\* f"k8s://{cluster_name}/{namespace}/pods/{name}", ".../deployments/{name}"
\* and f".../{resource_kind.lower()}s/{name}" of the generic store
Url(k, o) ==
    <<ClusterName, o.namespace, IF k = "ingresses" THEN "ingresss" ELSE k,
      o.name>>

\* the kind as the titles spell it: the literals of _store_pod_event and
\* _store_deployment_event, the resource_kind argument of the generic store
ResourceKind(k) ==
    CASE k = "pods" -> "Pod"
      [] k = "deployments" -> "Deployment"
      [] k = "statefulsets" -> "StatefulSet"
      [] k = "daemonsets" -> "DaemonSet"
      [] k = "services" -> "Service"
      [] k = "configmaps" -> "ConfigMap"
      [] k = "secrets" -> "Secret"
      [] k = "ingresses" -> "Ingress"
      [] k = "roles" -> "Role"
      [] k = "rolebindings" -> "RoleBinding"

\* "Find the most interesting reason for the title": the loop over the
\* container statuses, from container i on
RECURSIVE PodReason(_, _)
PodReason(cs, i) ==
    IF i > Len(cs) THEN "Updated"
    ELSE IF cs[i].waiting # NoneStr THEN cs[i].waiting
    ELSE IF cs[i].terminated # NoneStr THEN cs[i].terminated
    ELSE PodReason(cs, i + 1)

\* f"[{kind} {word}] {name}", as its three parts
Title(k, o) ==
    <<ResourceKind(k),
      IF o.type = "DELETED" THEN "Deleted"
      ELSE IF o.type = "ADDED" THEN "Created"
      ELSE IF k = "pods" THEN PodReason(o.obj.container_statuses, 1)
      ELSE "Updated",
      o.name>>

\* list(resource.data.items()): the keys with their values
KeyItems(data) ==
    [i \in 1..Len(Sorted(DOMAIN data)) |->
        <<Sorted(DOMAIN data)[i], data[Sorted(DOMAIN data)[i]]>>]

\* list(resource.data.keys()): the keys in the order of the object, which the
\* API serialises in key order
KeyList(data) == Sorted(DOMAIN data)

\* the description dict of the stores: the common entries and the entries
\* "Add resource-specific details" adds for the kind
Description(k, o) ==
    CASE k = "pods" ->
           [event_type |-> o.type, namespace |-> o.namespace,
            containers |-> o.obj.container_statuses]
      [] k = "deployments" ->
           [event_type |-> o.type, namespace |-> o.namespace,
            images |-> o.obj.images, replicas |-> o.obj.replicas]
      [] k \in {"statefulsets", "daemonsets"} ->
           [event_type |-> o.type, namespace |-> o.namespace]
      [] k = "services" ->
           [event_type |-> o.type, namespace |-> o.namespace,
            type |-> o.obj.type, ports |-> o.obj.ports]
      [] k = "configmaps" ->
           [event_type |-> o.type, namespace |-> o.namespace,
            data |-> IF o.obj.data = NoneStr THEN "" ELSE o.obj.data]
      [] k = "secrets" ->
           [event_type |-> o.type, namespace |-> o.namespace,
            data_keys |-> KeyList(o.obj.data), type |-> o.obj.type]
      [] k = "ingresses" ->
           [event_type |-> o.type, namespace |-> o.namespace,
            rules |-> o.obj.hosts]
      [] k \in {"roles", "rolebindings"} ->
           [event_type |-> o.type, namespace |-> o.namespace,
            rules |-> o.obj.rules]

\* the ChangeEvent row the store builds
MakeEvent(k, o) ==
    [connection_id |-> ConnectionId,
     event_id |-> EventId(k, o),
     title |-> Title(k, o),
     url |-> Url(k, o),
     status |-> o.type,
     namespace |-> o.namespace,
     description |-> Description(k, o)]

\* session.query(ChangeEvent).filter_by(connection_id, event_id).first()
Existing(evs, k, o) ==
    \E i \in 1..Len(evs) :
        /\ evs[i].connection_id = ConnectionId
        /\ evs[i].event_id = EventId(k, o)

\* a sink that inserts whatever it is given
SinkAppend(evs, e) == Append(evs, e)

\* session.add(change_event); session.commit() on the event sink, whose
\* contract is an idempotent insert on (connection_id, event_id)
SinkWrite(evs, e) ==
    IF \E i \in 1..Len(evs) : /\ evs[i].connection_id = e.connection_id
                              /\ evs[i].event_id = e.event_id
    THEN evs
    ELSE Append(evs, e)

----------------------------------------------------------------------------
(* The cluster *)

\* an observation as the watch stream delivers it
Obs(type, k, n, rv, obj) ==
    [type |-> type, kind |-> k, name |-> n, namespace |-> NamespaceOf(n),
     rv |-> rv, obj |-> obj]

\* the index of the last change of object (k, n), 0 if there is none
LastOf(h, k, n) ==
    LET I == {i \in 1..Len(h) : h[i].kind = k /\ h[i].name = n}
    IN  IF I = {} THEN 0 ELSE CHOOSE i \in I : \A j \in I : j <= i

Live(h, k, n) == LastOf(h, k, n) # 0 /\ h[LastOf(h, k, n)].type # "DELETED"

\* a watch opened without resource_version starts with one ADDED event per
\* live object, carrying the object's current resourceVersion
RECURSIVE InitialList(_, _, _)
InitialList(h, k, i) ==
    IF i > Len(NameSeq) THEN <<>>
    ELSE IF Live(h, k, NameSeq[i])
         THEN <<Obs("ADDED", k, NameSeq[i], LastOf(h, k, NameSeq[i]),
                    h[LastOf(h, k, NameSeq[i])].obj)>>
              \o InitialList(h, k, i + 1)
         ELSE InitialList(h, k, i + 1)

\* the changes of kind k after resourceVersion rv
Later(h, k, rv) == {i \in (rv + 1)..Len(h) : h[i].kind = k}

\* the objects the cluster of this run takes
Allowed(k) ==
    {ObjSeq(k)[i] : i \in {j \in 1..Len(ObjSeq(k)) : j <= limit.vals}}

\* No thread is between receiving an event and finishing it.  Only the start
\* of a sync and the delivery of an event read the cluster, so a change of
\* the cluster commutes with every other step of a thread and the model lets
\* the cluster change at these points only.
Quiescent == \A x \in DOMAIN sess : sess[x].pc \in {"idle", "stream", "done",
                                                   "expired", "failed", "crashed"}

ClusterCreate(k, n, v) ==
    /\ Len(hist) < limit.rv
    /\ Quiescent
    /\ k \in active
    /\ n \in names
    /\ v \in Allowed(k)
    /\ ~Live(hist, k, n)
    /\ hist' = Append(hist, Obs("ADDED", k, n, Len(hist) + 1, v))
    /\ UNCHANGED <<cfg, events, active, names, limit, slots, sync, cycles, sess, cache, seen,
                   expired,
                   lock, namespaces, conf, enabled, last_sync, now, sched>>

ClusterModify(k, n, v) ==
    /\ Len(hist) < limit.rv
    /\ Quiescent
    /\ k \in active
    /\ n \in names
    /\ v \in Allowed(k)
    /\ Live(hist, k, n)
    /\ hist' = Append(hist, Obs("MODIFIED", k, n, Len(hist) + 1, v))
    /\ UNCHANGED <<cfg, events, active, names, limit, slots, sync, cycles, sess, cache, seen,
                   expired,
                   lock, namespaces, conf, enabled, last_sync, now, sched>>

ClusterDelete(k, n) ==
    /\ Len(hist) < limit.rv
    /\ Quiescent
    /\ k \in active
    /\ n \in names
    /\ Live(hist, k, n)
    /\ hist' = Append(hist, Obs("DELETED", k, n, Len(hist) + 1,
                                hist[LastOf(hist, k, n)].obj))
    /\ UNCHANGED <<cfg, events, active, names, limit, slots, sync, cycles, sess, cache, seen,
                   expired,
                   lock, namespaces, conf, enabled, last_sync, now, sched>>

----------------------------------------------------------------------------
(* The watch threads *)

IdleSession ==
    [pc |-> "idle", token |-> NoToken, cursor |-> 0, pending |-> <<>>,
     cur |-> NoObs, val |-> NoToken, snap |-> [k \in Kinds |-> NoToken],
     ret |-> "filter", judged |-> FALSE, sig |-> FALSE, hasPrev |-> FALSE,
     prev |-> NoSummary,
     store |-> "-", resync |-> FALSE, fromList |-> FALSE,
     config_data |-> ConnectionConfig("")]

\* a thread at the start of its stream: with the stored resourceVersion the
\* stream resumes after it, without one it lists the live objects first
OpenSession(k, rv, h, cleared) ==
    [IdleSession EXCEPT
        !.pc = "stream",
        !.token = rv,
        !.cursor = IF rv # NoToken THEN rv ELSE Len(h),
        !.pending = IF rv # NoToken THEN <<>> ELSE InitialList(h, k, 1),
        !.resync = (rv = NoToken /\ cleared)]

Final == {"done", "expired", "failed", "crashed"}

\* the reduced summary of an observation, as section 3 of the design names it
Summary(k, o) ==
    CASE k = "pods" -> o.obj.container_statuses
      [] k \in {"deployments", "statefulsets", "daemonsets"} ->
           <<o.obj.images, o.obj.replicas>>
      [] k = "services" -> <<o.obj.type, o.obj.ports>>
      [] k = "configmaps" -> <<o.obj.data>>
      [] k = "secrets" -> <<DOMAIN o.obj.data>>
      [] k = "ingresses" -> <<o.obj.hosts>>
      [] k \in {"roles", "rolebindings"} -> <<o.obj.rules>>

\* poll_connection acquires the poll lock (free, or held by an invocation
\* whose 300 s timeout has elapsed), finds the connection enabled and calls
\* the sync function, whose test_connection succeeds;
\* fetch_and_store_changes up to thread.start(): sync_kubernetes has built a
\* connector (empty cache), the stored resourceVersions are read once
StartSync(s, elapsed) ==
    /\ s \in slots
    /\ sync[s] # "running"
    /\ cycles < limit.cycles
    /\ enabled
    /\ IF elapsed THEN lock # NoHolder ELSE lock = NoHolder
    /\ lock' = s
    /\ cycles' = cycles + 1
    /\ sync' = [sync EXCEPT ![s] = "running"]
    /\ sess' = [x \in DOMAIN sess |->
                  IF x[1] = s
                  THEN OpenSession(x[2], cfg[x[2]], hist, x[2] \in expired)
                  ELSE sess[x]]
    /\ cache' = [cache EXCEPT ![s] = EmptyDict]
    /\ seen' = [seen EXCEPT ![s] = EmptyDict]
    /\ expired' = expired \ active
    /\ UNCHANGED <<hist, cfg, events, active, names, limit, slots, namespaces, conf, enabled, last_sync, now, sched>>

\* a return that does not wait for the threads
EndSyncNoJoin(s) ==
    /\ sync[s] = "running"
    /\ sync' = [sync EXCEPT ![s] = "idle"]
    /\ last_sync' = now
    /\ lock' = IF lock = s THEN NoHolder ELSE lock
    /\ UNCHANGED <<hist, cfg, events, active, names, limit, slots, cycles, sess, cache, seen,
                   expired, namespaces, conf, enabled, now, sched>>

\* fetch_and_store_changes after the joins; poll_connection sets last_sync,
\* returns and releases the lock, which redis deletes only if this invocation
\* owns it
EndSync(s) ==
    /\ sync[s] = "running"
    /\ \A k \in active : sess[s, k].pc \in Final
    /\ sync' = [sync EXCEPT ![s] = "idle"]
    /\ last_sync' = now
    /\ lock' = IF lock = s THEN NoHolder ELSE lock
    /\ UNCHANGED <<hist, cfg, events, active, names, limit, slots, cycles, sess, cache, seen,
                   expired, namespaces, conf, enabled, now, sched>>

\* a poll that returns 'skipped' for a disabled connection without releasing
\* the lock it has acquired
PollDisabledHolding(s) ==
    /\ s \in slots
    /\ sync[s] # "running"
    /\ cycles < limit.cycles
    /\ ~enabled
    /\ cycles' = cycles + 1
    /\ sync' = [sync EXCEPT ![s] = "disabled"]
    /\ lock' = s
    /\ UNCHANGED <<hist, cfg, events, active, names, limit, slots, sess, cache, seen,
                   expired, namespaces, conf, enabled, last_sync, now, sched>>

\* poll_connection acquires the lock and finds no enabled connection of
\* this id: it returns 'skipped', the finally releases the lock
PollDisabled(s) ==
    /\ s \in slots
    /\ sync[s] # "running"
    /\ cycles < limit.cycles
    /\ ~enabled
    /\ cycles' = cycles + 1
    /\ sync' = [sync EXCEPT ![s] = "disabled"]
    /\ lock' = NoHolder
    /\ UNCHANGED <<hist, cfg, events, active, names, limit, slots, sess, cache, seen,
                   expired, namespaces, conf, enabled, last_sync, now, sched>>

\* poll_connection acquires the lock, the import of the connector module
\* fails or the module has no sync function: it returns 'error', the finally
\* releases the lock
PollNoModule(s) ==
    /\ s \in slots
    /\ sync[s] # "running"
    /\ cycles < limit.cycles
    /\ enabled
    /\ cycles' = cycles + 1
    /\ sync' = [sync EXCEPT ![s] = "no_module"]
    /\ lock' = NoHolder
    /\ UNCHANGED <<hist, cfg, events, active, names, limit, slots, sess, cache, seen,
                   expired, namespaces, conf, enabled, last_sync, now, sched>>

\* a sync_kubernetes that goes on to fetch_and_store_changes although
\* test_connection has failed
ConnectFailStarting(s) ==
    /\ s \in slots
    /\ sync[s] # "running"
    /\ cycles < limit.cycles
    /\ enabled
    /\ cycles' = cycles + 1
    /\ sync' = [sync EXCEPT ![s] = "error"]
    /\ lock' = NoHolder
    /\ sess' = [x \in DOMAIN sess |->
                  IF x[1] = s
                  THEN OpenSession(x[2], cfg[x[2]], hist, x[2] \in expired)
                  ELSE sess[x]]
    /\ cache' = [cache EXCEPT ![s] = EmptyDict]
    /\ seen' = [seen EXCEPT ![s] = EmptyDict]
    /\ UNCHANGED <<hist, cfg, events, active, names, limit, slots,
                   expired, namespaces, conf, enabled, last_sync, now, sched>>

\* poll_connection acquires the lock and calls sync_kubernetes, which builds
\* a connector; test_connection returns False and sync_kubernetes raises;
\* poll_connection returns 'error' and the finally releases the lock
ConnectFail(s) ==
    /\ s \in slots
    /\ sync[s] # "running"
    /\ cycles < limit.cycles
    /\ enabled
    /\ cycles' = cycles + 1
    /\ sync' = [sync EXCEPT ![s] = "error"]
    /\ lock' = NoHolder
    /\ cache' = [cache EXCEPT ![s] = EmptyDict]
    /\ seen' = [seen EXCEPT ![s] = EmptyDict]
    /\ UNCHANGED <<hist, cfg, events, active, names, limit, slots, sess,
                   expired, namespaces, conf, enabled, last_sync, now, sched>>

\* seconds per tick of the clock
TickSeconds == 150

\* time passes
Tick ==
    /\ now < MaxTicks
    /\ Quiescent
    /\ now' = now + 1
    /\ UNCHANGED <<hist, cfg, events, active, names, limit, slots, sync, cycles, sess,
                   cache, seen, expired, lock, namespaces, conf, enabled, last_sync,
                   sched>>

\* should_sync of sync_all_connections for a connection the query returned
ShouldSync(last, t, config) ==
    IF last = NoneInt THEN TRUE
    ELSE (t - last) * TickSeconds >= DictGet(config, "poll_interval", 300)

\* a scheduler that waits until more than poll_interval has passed
SyncAllStrict ==
    /\ sched.runs < MaxBeats
    /\ Quiescent
    /\ sched' = [runs |-> sched.runs + 1,
                 triggered |-> IF enabled
                                  /\ (last_sync = NoneInt
                                      \/ (now - last_sync) * TickSeconds
                                           > DictGet(conf, "poll_interval", 300))
                               THEN 1 ELSE 0]
    /\ UNCHANGED <<hist, cfg, events, active, names, limit, slots, sync, cycles, sess,
                   cache, seen, expired, lock, namespaces, conf, enabled, last_sync,
                   now>>

\* sync_all_connections: the enabled connections that are due get a
\* poll_connection task; the run returns the number of tasks it triggered
SyncAll ==
    /\ sched.runs < MaxBeats
    /\ Quiescent
    /\ sched' = [runs |-> sched.runs + 1,
                 triggered |-> IF enabled /\ ShouldSync(last_sync, now, conf)
                               THEN 1 ELSE 0]
    /\ UNCHANGED <<hist, cfg, events, active, names, limit, slots, sync, cycles, sess,
                   cache, seen, expired, lock, namespaces, conf, enabled, last_sync,
                   now>>

\* poll_connection finds the lock held: it returns 'skipped' before the try
\* block, so neither the sync function nor lock.release() is called
PollSkip(s) ==
    /\ s \in slots
    /\ sync[s] # "running"
    /\ cycles < limit.cycles
    /\ lock # NoHolder
    /\ cycles' = cycles + 1
    /\ sync' = [sync EXCEPT ![s] = "skipped"]
    /\ UNCHANGED <<hist, cfg, events, active, names, limit, slots, sess, cache, seen,
                   expired, lock, namespaces, conf, enabled, last_sync, now, sched>>

\* a loop that hands the event to the filter without saving its token
DeliverUnsaved(s, k) ==
    LET t == sess[s, k]
        o == IF t.pending # <<>> THEN Head(t.pending)
             ELSE hist[CHOOSE i \in Later(hist, k, t.cursor) :
                         \A j \in Later(hist, k, t.cursor) : i <= j]
    IN  /\ <<s, k>> \in DOMAIN sess
        /\ t.pc = "stream"
        /\ t.pending # <<>> \/ Later(hist, k, t.cursor) # {}
        /\ sess' = [sess EXCEPT ![s, k] =
              [t EXCEPT
                 !.pending = IF t.pending # <<>> THEN Tail(t.pending) ELSE <<>>,
                 !.cursor = IF t.pending # <<>> THEN t.cursor ELSE o.rv,
                 !.cur = o,
                 !.fromList = (t.pending # <<>>),
                 !.judged = FALSE,
                 !.sig = FALSE,
                 !.store = "-",
                 !.hasPrev = FALSE,
                 !.prev = NoSummary,
                 !.val = o.rv,
                 !.ret = "filter",
                 !.pc = IF Denied(k, o) THEN "stream" ELSE "filter"]]
        /\ UNCHANGED <<hist, cfg, events, active, names, limit, slots, sync, cycles, cache,
                       seen, expired, lock, namespaces, conf, enabled, last_sync, now, sched>>

\* the stream yields its next event; a deny-listed secret is skipped, any
\* other event goes to _save_resource_version first
Deliver(s, k) ==
    LET t == sess[s, k]
        o == IF t.pending # <<>> THEN Head(t.pending)
             ELSE hist[CHOOSE i \in Later(hist, k, t.cursor) :
                         \A j \in Later(hist, k, t.cursor) : i <= j]
    IN  /\ <<s, k>> \in DOMAIN sess
        /\ t.pc = "stream"
        /\ t.pending # <<>> \/ Later(hist, k, t.cursor) # {}
        /\ sess' = [sess EXCEPT ![s, k] =
              [t EXCEPT
                 !.pending = IF t.pending # <<>> THEN Tail(t.pending) ELSE <<>>,
                 !.cursor = IF t.pending # <<>> THEN t.cursor ELSE o.rv,
                 !.cur = o,
                 !.fromList = (t.pending # <<>>),
                 !.judged = FALSE,
                 !.sig = FALSE,
                 !.store = "-",
                 !.hasPrev = FALSE,
                 !.prev = NoSummary,
                 !.val = o.rv,
                 !.ret = "filter",
                 !.pc = IF Denied(k, o) THEN "stream"
                        ELSE IF o.rv # NoToken THEN "save_read" ELSE "filter"]]
        /\ UNCHANGED <<hist, cfg, events, active, names, limit, slots, sync, cycles, cache,
                       seen, expired,
                   lock, namespaces, conf, enabled, last_sync, now, sched>>

\* a stream that stays open for ever
StreamNeverEnds(s, k) ==
    /\ <<s, k>> \in DOMAIN sess
    /\ sess[s, k].pc = "stream"
    /\ UNCHANGED <<hist, cfg, events, active, names, limit, slots, sync, cycles, sess, cache,
                   seen, expired, lock, namespaces, conf, enabled, last_sync, now, sched>>

\* the stream ends after timeout_seconds
StreamEnd(s, k) ==
    /\ <<s, k>> \in DOMAIN sess
    /\ sess[s, k].pc = "stream"
    /\ sess' = [sess EXCEPT ![s, k].pc = "done"]
    /\ UNCHANGED <<hist, cfg, events, active, names, limit, slots, sync, cycles, cache, seen,
                   expired,
                   lock, namespaces, conf, enabled, last_sync, now, sched>>

\* a handler that saves None for every status
StreamErrorClearing(s, k, status) ==
    /\ <<s, k>> \in DOMAIN sess
    /\ sess[s, k].pc = "stream"
    /\ sess' = [sess EXCEPT ![s, k] =
          IF status = 410
          THEN [@ EXCEPT !.val = NoToken, !.ret = "expired", !.pc = "save_read"]
          ELSE [@ EXCEPT !.val = NoToken, !.ret = "failed", !.pc = "save_read"]]
    /\ UNCHANGED <<hist, cfg, events, active, names, limit, slots, sync, cycles, cache, seen,
                   expired, lock, namespaces, conf, enabled, last_sync, now, sched>>

\* the stream raises ApiException: status 410 saves None, any other status
\* is only printed
StreamError(s, k, status) ==
    /\ <<s, k>> \in DOMAIN sess
    /\ sess[s, k].pc = "stream"
    /\ sess' = [sess EXCEPT ![s, k] =
          IF status = 410
          THEN [@ EXCEPT !.val = NoToken, !.ret = "expired", !.pc = "save_read"]
          ELSE [@ EXCEPT !.pc = "failed"]]
    /\ UNCHANGED <<hist, cfg, events, active, names, limit, slots, sync, cycles, cache, seen,
                   expired,
                   lock, namespaces, conf, enabled, last_sync, now, sched>>

\* _save_resource_version, the query: the thread's session loads the row
SaveRead(s, k) ==
    /\ <<s, k>> \in DOMAIN sess
    /\ sess[s, k].pc = "save_read"
    /\ sess' = [sess EXCEPT ![s, k].snap = cfg,
                             ![s, k].config_data = conf,
                             ![s, k].pc = "save_write"]
    /\ UNCHANGED <<hist, cfg, events, active, names, limit, slots, sync, cycles, cache, seen,
                   expired,
                   lock, namespaces, conf, enabled, last_sync, now, sched>>

\* the dict the commit of _save_resource_version writes
SavedConfig(snap, k, rv) == [snap EXCEPT ![k] = rv]

\* _save_resource_version, the commit: the whole config of the loaded row,
\* with this kind's entry replaced, is written back
SaveWrite(s, k) ==
    /\ <<s, k>> \in DOMAIN sess
    /\ sess[s, k].pc = "save_write"
    /\ cfg' = SavedConfig(sess[s, k].snap, k, sess[s, k].val)
    /\ conf' = sess[s, k].config_data
    /\ sess' = [sess EXCEPT ![s, k].pc = sess[s, k].ret,
                             ![s, k].snap = IdleSession.snap,
                             ![s, k].config_data = IdleSession.config_data]
    /\ expired' = IF sess[s, k].ret = "expired" THEN expired \cup {k}
                  ELSE expired
    /\ UNCHANGED <<hist, events, active, names, limit, slots, sync, cycles, cache, seen,
                   lock, namespaces, enabled, last_sync, now, sched>>

\* update_connection of the API: one transaction that replaces the whole
\* config by the request's ConnectionConfig, which has no resource_versions
UpdateConnection(token, on) ==
    /\ enabled' = on
    /\ conf' = ConnectionConfig(token)
    /\ cfg' = [k \in Kinds |-> NoToken]
    /\ UNCHANGED <<hist, events, active, names, limit, slots, sync, cycles, sess, cache,
                   seen, expired, lock, namespaces, last_sync, now, sched>>

\* the significance test of the loop
Filter(s, k) ==
    LET t == sess[s, k]
        d == Significant(k, t.cur, cache[s])
        id == <<k, t.cur.name>>
    IN  /\ <<s, k>> \in DOMAIN sess
        /\ t.pc = "filter"
        /\ cache' = [cache EXCEPT ![s] = d.cache]
        /\ seen' = [seen EXCEPT ![s] = DictSet(seen[s], id, Summary(k, t.cur))]
        /\ sess' = [sess EXCEPT ![s, k] =
              [t EXCEPT !.judged = TRUE,
                        !.sig = d.sig,
                        !.hasPrev = (id \in DOMAIN seen[s]),
                        !.prev = DictGet(seen[s], id, NoSummary),
                        !.pc = IF d.sig THEN "store_query" ELSE "stream"]]
        /\ UNCHANGED <<hist, cfg, events, active, names, limit, slots, sync, cycles, expired,
                   lock, namespaces, conf, enabled, last_sync, now, sched>>

\* _store_*_event, the duplicate check
StoreQuery(s, k) ==
    LET t == sess[s, k]
    IN  /\ <<s, k>> \in DOMAIN sess
        /\ t.pc = "store_query"
        /\ sess' = [sess EXCEPT ![s, k] =
              IF Existing(events, k, t.cur)
              THEN [t EXCEPT !.store = "skipped", !.pc = "stream"]
              ELSE [t EXCEPT !.pc = "store_insert"]]
        /\ UNCHANGED <<hist, cfg, events, active, names, limit, slots, sync, cycles, cache,
                       seen, expired,
                   lock, namespaces, conf, enabled, last_sync, now, sched>>

\* _store_*_event, session.add and session.commit
StoreInsert(s, k) ==
    LET t == sess[s, k]
    IN  /\ <<s, k>> \in DOMAIN sess
        /\ t.pc = "store_insert"
        /\ events' = SinkWrite(events, MakeEvent(k, t.cur))
        /\ sess' = [sess EXCEPT ![s, k] =
              [t EXCEPT !.store = "inserted", !.pc = "stream"]]
        /\ UNCHANGED <<hist, cfg, active, names, limit, slots, sync, cycles, cache, seen,
                       expired,
                   lock, namespaces, conf, enabled, last_sync, now, sched>>

\* an exception of the store that takes the other threads of the sync down
StoreFailCancelling(s, k) ==
    /\ <<s, k>> \in DOMAIN sess
    /\ sess[s, k].pc \in {"store_query", "store_insert"}
    /\ sess' = [x \in DOMAIN sess |->
                  IF x = <<s, k>>
                  THEN [sess[x] EXCEPT !.store = "raised", !.pc = "crashed"]
                  ELSE IF x[1] = s /\ sess[x].pc \notin Final
                  THEN [sess[x] EXCEPT !.pc = "crashed"]
                  ELSE sess[x]]
    /\ UNCHANGED <<hist, cfg, events, active, names, limit, slots, sync, cycles, cache, seen,
                   expired, lock, namespaces, conf, enabled, last_sync, now, sched>>

\* the database raises in _store_*_event: the exception is no ApiException,
\* so it leaves the loop and ends the thread
StoreFail(s, k) ==
    /\ <<s, k>> \in DOMAIN sess
    /\ sess[s, k].pc \in {"store_query", "store_insert"}
    /\ sess' = [sess EXCEPT ![s, k].store = "raised", ![s, k].pc = "crashed"]
    /\ UNCHANGED <<hist, cfg, events, active, names, limit, slots, sync, cycles, cache, seen,
                   expired,
                   lock, namespaces, conf, enabled, last_sync, now, sched>>

\* the next step of the thread of kind k: each thread runs on its own, the
\* stream ends at the latest after timeout_seconds
ThreadStep(s, k) ==
    \/ Deliver(s, k)
    \/ StreamEnd(s, k)
    \/ SaveRead(s, k)
    \/ SaveWrite(s, k)
    \/ Filter(s, k)
    \/ StoreQuery(s, k)
    \/ StoreInsert(s, k)

----------------------------------------------------------------------------
(* Specifications *)

\* no sync has run yet: one idle thread per invocation and watched kind
InitThreads == sess = [x \in slots \X active |-> IdleSession]

InitCommon ==
    /\ hist = <<>>
    /\ cfg = [k \in Kinds |-> NoToken]
    /\ events = <<>>
    /\ sync = [s \in Slots |-> "idle"]
    /\ cycles = 0
    /\ cache = [s \in Slots |-> EmptyDict]
    /\ seen = [s \in Slots |-> EmptyDict]
    /\ expired = {}
    /\ lock = NoHolder
    /\ conf = ConnectionConfig("token-1")
    /\ enabled = TRUE
    /\ last_sync = NoneInt
    /\ now = 0
    /\ sched = [runs |-> 0, triggered |-> 0]

\* one sync at a time, watching one kind
Init ==
    /\ InitCommon
    /\ slots = {1}
    /\ active \in {{k} : k \in Kinds}
    /\ names = {"a"}
    /\ limit = [rv |-> MaxRV, cycles |-> MaxCycles, vals |-> MaxVals]
    /\ namespaces = {}
    /\ InitThreads

\* two overlapping syncs of the connection, watching deployments
InitOverlap ==
    /\ InitCommon
    /\ slots = {1, 2}
    /\ active = {"deployments"}
    /\ names = {"a"}
    /\ limit = [rv |-> MaxRVOverlap, cycles |-> MaxCycles,
               vals |-> MaxValsOverlap]
    /\ namespaces = {}
    /\ InitThreads

\* two overlapping syncs, the cluster changing the deployment twice
InitLate ==
    /\ InitCommon
    /\ slots = {1, 2}
    /\ active = {"deployments"}
    /\ names = {"a"}
    /\ limit = [rv |-> MaxRV, cycles |-> MaxCycles, vals |-> MaxVals]
    /\ namespaces = {}
    /\ InitThreads

\* one sync, watching one kind through three changes of the cluster
InitFilter ==
    /\ InitCommon
    /\ slots = {1}
    /\ active \in {{k} : k \in Kinds}
    /\ names = {"a"}
    /\ limit = [rv |-> MaxRVFilter, cycles |-> MaxCyclesFilter,
               vals |-> MaxVals]
    /\ namespaces = {}
    /\ InitThreads

\* one sync at a time, watching two kinds in parallel threads
InitKinds ==
    /\ InitCommon
    /\ slots = {1}
    /\ active = {"deployments", "statefulsets"}
    /\ names = {"a"}
    /\ limit = [rv |-> MaxRV, cycles |-> MaxCyclesKinds, vals |-> MaxVals]
    /\ namespaces = {}
    /\ InitThreads

Next ==
    \/ \E k \in Kinds, n \in Names : \E v \in ObjVals(k) :
          ClusterCreate(k, n, v)
    \/ \E k \in Kinds, n \in Names : \E v \in ObjVals(k) :
          ClusterModify(k, n, v)
    \/ \E k \in Kinds, n \in Names : ClusterDelete(k, n)
    \/ \E s \in Slots, elapsed \in BOOLEAN : StartSync(s, elapsed)
    \/ \E s \in Slots : EndSync(s)
    \/ \E s \in Slots, k \in Kinds : Deliver(s, k)
    \/ \E s \in Slots, k \in Kinds : StreamEnd(s, k)
    \/ \E s \in Slots, k \in Kinds, status \in {410, 500} :
          StreamError(s, k, status)
    \/ \E s \in Slots, k \in Kinds : SaveRead(s, k)
    \/ \E s \in Slots, k \in Kinds : SaveWrite(s, k)
    \/ \E s \in Slots, k \in Kinds : Filter(s, k)
    \/ \E s \in Slots, k \in Kinds : StoreQuery(s, k)
    \/ \E s \in Slots, k \in Kinds : StoreInsert(s, k)
    \/ \E s \in Slots, k \in Kinds : StoreFail(s, k)

Spec == Init /\ [][Next]_vars

SpecOverlap == InitOverlap /\ [][Next]_vars

SpecFilter == InitFilter /\ [][Next]_vars

SpecLate == InitLate /\ [][Next]_vars

SpecKinds == InitKinds /\ [][Next]_vars

\* one sync cycle of two kinds whose objects do not vary
InitJoin ==
    /\ InitCommon
    /\ slots = {1}
    /\ active = {"deployments", "statefulsets"}
    /\ names = {"a"}
    /\ limit = [rv |-> MaxRVOverlap, cycles |-> MaxCyclesKinds,
               vals |-> MaxValsOverlap]
    /\ namespaces = {}
    /\ InitThreads

SpecJoin == InitJoin /\ [][Next]_vars

\* the threads of a sync are scheduled, every stream ends, and the
\* coordinator returns once its joins have returned
Advance ==
    \/ \E s \in Slots, k \in Kinds : ThreadStep(s, k)
    \/ \E s \in Slots : EndSync(s)

SpecFair == InitJoin /\ [][Next]_vars /\ WF_vars(Advance)

\* one sync cycle watching a Pod and a Deployment of the same name
InitShared ==
    /\ InitCommon
    /\ slots = {1}
    /\ active = {"pods", "deployments"}
    /\ names = {"a"}
    /\ limit = [rv |-> MaxRVFilter, cycles |-> MaxCyclesKinds,
               vals |-> MaxValsOverlap]
    /\ namespaces = {}
    /\ InitThreads

SpecShared == InitShared /\ [][Next]_vars

\* one sync cycle of one kind, with updates of the connection through the API
InitApi ==
    /\ InitCommon
    /\ slots = {1}
    /\ active = {"deployments"}
    /\ names = {"a"}
    /\ limit = [rv |-> MaxRVOverlap, cycles |-> MaxCyclesKinds,
               vals |-> MaxValsOverlap]
    /\ namespaces = {}
    /\ InitThreads

NextApi ==
    \/ Next
    \/ \E token \in Tokens, on \in BOOLEAN : UpdateConnection(token, on)

SpecApi == InitApi /\ [][NextApi]_vars

\* the scheduler, the API and the outcomes of poll_connection for one
\* connection
InitSched ==
    /\ InitCommon
    /\ slots = {1}
    /\ active = {"deployments"}
    /\ names = {"a"}
    /\ limit = [rv |-> MaxRVOverlap, cycles |-> MaxCycles,
               vals |-> MaxValsOverlap]
    /\ namespaces = {}
    /\ InitThreads

NextSched ==
    \/ NextApi
    \/ \E s \in Slots : PollDisabled(s)
    \/ \E s \in Slots : PollNoModule(s)
    \/ \E s \in Slots : ConnectFail(s)
    \/ Tick
    \/ SyncAll

SpecSched == InitSched /\ [][NextSched]_vars

\* one sync cycle of the Pod watch, over Pods of one and of two containers
InitPods ==
    /\ InitCommon
    /\ slots = {1}
    /\ active = {"pods"}
    /\ names = {"a"}
    /\ limit = [rv |-> MaxRVFilter, cycles |-> MaxCyclesFilter,
               vals |-> MaxValsPods]
    /\ namespaces = {}
    /\ InitThreads

SpecPods == InitPods /\ [][Next]_vars

\* the invocations of poll_connection, those that find the lock held included
NextPoll ==
    \/ Next
    \/ \E s \in Slots : PollSkip(s)

SpecPoll == InitOverlap /\ [][NextPoll]_vars

\* a cluster with objects in two namespaces, the connection targeting one
InitNamespaces ==
    /\ InitCommon
    /\ slots = {1}
    /\ active \in {{k} : k \in Kinds}
    /\ names = Names
    /\ limit = [rv |-> MaxRV, cycles |-> MaxCyclesKinds, vals |-> MaxValsOverlap]
    /\ namespaces = {Namespace}
    /\ InitThreads

SpecNamespaces == InitNamespaces /\ [][Next]_vars

----------------------------------------------------------------------------
(* Properties *)

Threads == DOMAIN sess

\* the rows stored for the observation o of kind k
RowsOf(k, o) ==
    {i \in 1..Len(events) : /\ events[i].url = Url(k, o)
                            /\ events[i].event_id[5] = o.rv}

\* C1: the persisted checkpoint of a kind never equals the token of an
\* observation that is significant but whose ChangeEvent is not yet written
C1_CheckpointOnlyAfterWrite ==
    \A x \in Threads :
        (/\ \/ sess[x].pc \in {"store_query", "store_insert"}
            \/ /\ sess[x].pc = "filter"
               /\ Significant(x[2], sess[x].cur, cache[x[1]]).sig
         /\ RowsOf(x[2], sess[x].cur) = {})
        => cfg[x[2]] # sess[x].cur.rv

\* C2: when the store of a significant observation raises, the persisted
\* checkpoint of the kind is not the token of that observation
C2_FailedWriteKeepsCheckpoint ==
    \A x \in Threads :
        (sess[x].pc = "crashed" /\ RowsOf(x[2], sess[x].cur) = {})
        => cfg[x[2]] # sess[x].cur.rv

\* C3: sequential stores are idempotent on the event id: no two rows are
\* stored for one (cluster, namespace, kind, name, resource version), and a
\* store call that returned, having inserted or having found the event id
\* present, leaves exactly one row for its observation
C3_StoreIdempotent ==
    /\ \A i, j \in 1..Len(events) :
          (/\ i # j
           /\ events[i].url = events[j].url
           /\ events[i].event_id[5] = events[j].event_id[5]) => FALSE
    /\ \A x \in Threads :
          sess[x].store \in {"inserted", "skipped"}
          => Cardinality(RowsOf(x[2], sess[x].cur)) = 1

\* C3 witness: a second store of an observation returned without inserting
C3_Witness ==
    \E x \in Threads :
        /\ sess[x].store = "skipped"
        /\ sess[x].pc = "stream"
        /\ Cardinality(RowsOf(x[2], sess[x].cur)) = 1

DiffedKinds == Kinds \ {"pods", "roles", "rolebindings"}

\* C5: an Updated observation of a diffed kind is emitted if and only if its
\* reduced summary differs from that of the previous observation of the
\* identity
C5_UpdatedEmittedIffSummaryDiffers ==
    \A x \in Threads :
        (/\ x[2] \in DiffedKinds
         /\ sess[x].judged
         /\ sess[x].cur.type = "MODIFIED"
         /\ sess[x].hasPrev)
        => (sess[x].sig <=> Summary(x[2], sess[x].cur) # sess[x].prev)

\* C6: a Created or Deleted observation that is not deny-listed is always
\* judged significant and handed to the store, whatever the cache holds
C6_CreatedDeletedAlwaysStored ==
    \A x \in Threads :
        (sess[x].judged /\ sess[x].cur.type \in {"ADDED", "DELETED"})
        => /\ sess[x].sig
           /\ \/ sess[x].pc \in {"store_query", "store_insert"}
              \/ sess[x].store # "-"

\* C6 witness: a Deleted observation went to the store while the cache held
\* an entry of its identity
C6_Witness ==
    \E x \in Threads :
        /\ sess[x].judged
        /\ sess[x].cur.type = "DELETED"
        /\ sess[x].store = "inserted"
        /\ CacheKey(x[2], sess[x].cur) \in DOMAIN cache[x[1]]

\* C7: after the 410 handler of a kind has run, the persisted checkpoint of
\* the kind is cleared and stays so until the next session of the kind reads
\* it, and the handler's write changes the checkpoint of no other kind
C7_ExpiredClearsOwnCheckpoint ==
    \A x \in Threads :
        /\ sess[x].pc = "expired" => cfg[x[2]] = NoToken
        /\ (sess[x].pc = "save_write" /\ sess[x].ret = "expired")
           => \A k \in Kinds \ {x[2]} : sess[x].snap[k] = cfg[k]

\* C8: in the first session after a 410 cleared the checkpoint, a
\* Created-equivalent event is written for every listed live object
C8_ResyncWritesEveryLiveObject ==
    \A x \in Threads :
        (/\ sess[x].resync
         /\ sess[x].fromList
         /\ sess[x].judged
         /\ sess[x].pc \in {"stream", "done", "expired", "failed"})
        => sess[x].store = "inserted"

\* C9: the persisted checkpoint never goes back from the token of an
\* observation of an identity to the token of an older observation of it
C9_NoRegression ==
    [][\A k \in Kinds :
         (/\ cfg[k] # NoToken
          /\ cfg'[k] # NoToken
          /\ cfg'[k] < cfg[k])
         => hist[cfg[k]].name # hist[cfg'[k]].name]_vars

\* C10: a checkpoint save changes only the stored token of its own kind
C10_SavesAreIndependent ==
    [][\A k \in Kinds :
         cfg'[k] # cfg[k]
         => /\ k \in active
            /\ \E s \in slots : /\ sess[s, k].pc = "save_write"
                                /\ sess'[s, k].pc # "save_write"
                                /\ cfg'[k] = sess[s, k].val]_vars

\* C11: within one session, once an observation has been processed, and when
\* the session has ended without error, the persisted checkpoint of the kind
\* equals the token of the last observation the stream delivered
C11_CheckpointFollowsDelivery ==
    \A x \in Threads :
        (sess[x].pc \in {"stream", "done"} /\ sess[x].cur # NoObs)
        => cfg[x[2]] = sess[x].cur.rv

SameKeys(v) ==
    {w \in ObjVals("secrets") : /\ w.type = v.type
                                /\ DOMAIN w.data = DOMAIN v.data}

\* C13: a Secret observation and the same observation with other values
\* under the same keys get the same significance decision, leave the same
\* cache and produce the same ChangeEvent; the description holds key names
C13_SecretValuesNeverStored ==
    \A x \in Threads :
        (x[2] = "secrets" /\ sess[x].cur # NoObs)
        => \A w \in SameKeys(sess[x].cur.obj) :
              LET o == sess[x].cur
                  o2 == [o EXCEPT !.obj = w]
              IN  /\ Denied("secrets", o2) = Denied("secrets", o)
                  /\ Significant("secrets", o2, cache[x[1]])
                       = Significant("secrets", o, cache[x[1]])
                  /\ MakeEvent("secrets", o2) = MakeEvent("secrets", o)
                  /\ MakeEvent("secrets", o).description.data_keys
                       = Sorted(DOMAIN o.obj.data)

\* C13 witness: only the value under key k1 of a secret changed and the
\* Updated observation was stored, described by its key names
C13_Witness ==
    \E x \in Threads :
        /\ x[2] = "secrets"
        /\ sess[x].cur.type = "MODIFIED"
        /\ sess[x].store = "inserted"
        /\ Len(hist) = 2
        /\ DOMAIN hist[1].obj.data = DOMAIN hist[2].obj.data
        /\ hist[1].obj.data # hist[2].obj.data
        /\ events[Len(events)].description.data_keys = <<"k1">>

\* C14: a sync cycle runs exactly one session for each of the kinds it
\* monitors (the coordinator lists ten), every one of them is started before
\* the coordinator waits, and once it has returned every session of the
\* cycle has terminated, so none is reading, saving or storing any more
C14_SyncJoinsAllSessions ==
    /\ Cardinality(Kinds) = 10
    /\ DOMAIN sess = slots \X active
    /\ \A s \in slots :
          /\ sync[s] = "running"
             => \A k \in active : sess[s, k].pc # "idle"
          /\ sync[s] # "running"
             => \A k \in active : sess[s, k].pc \in Final \cup {"idle"}

\* C14 witness: the coordinator has returned from a cycle in which one
\* session crashed in the store and the other ran to the end of its stream
C14_Witness ==
    /\ cycles = 1
    /\ sync[1] = "idle"
    /\ active = {"deployments", "statefulsets"}
    /\ sess[1, "deployments"].pc = "crashed"
    /\ sess[1, "statefulsets"].pc = "done"
    /\ sess[1, "statefulsets"].store = "inserted"

Failed == {"failed", "crashed", "expired"}

\* C15: when the session of one kind has failed (a stream error, a 410, an
\* exception of the store), the session of every other kind of the cycle is
\* neither blocked nor cancelled: it can take its next step, it stops only
\* between observations, and its checkpoint saves write its own token
C15_FailureIsIsolated ==
    /\ [](\A x, y \in Threads :
            (/\ x[1] = y[1]
             /\ x[2] # y[2]
             /\ sess[y].pc \in Failed
             /\ sess[x].pc \notin Final \cup {"idle"})
            => ENABLED ThreadStep(x[1], x[2]))
    /\ [][\A x, y \in Threads :
            (/\ x[1] = y[1]
             /\ x[2] # y[2]
             /\ sess'[y].pc \in Failed)
            => /\ (sess[x].pc \notin Final /\ sess'[x].pc \in Final)
                  => (sess'[x].cur = NoObs \/ sess'[x].judged)
               /\ (sess[x].pc = "save_write" /\ sess'[x].pc # "save_write")
                  => cfg'[x[2]] = sess[x].val]_vars

\* C15 witness: the deployments session crashed in the store before its
\* observation was written, the statefulsets session of the same cycle
\* processed its observation, stored it and persisted its checkpoint
C15_Witness ==
    /\ active = {"deployments", "statefulsets"}
    /\ sess[1, "deployments"].pc = "crashed"
    /\ events # <<>>
    /\ \A i \in 1..Len(events) : events[i].event_id[3] = "statefulset"
    /\ sess[1, "statefulsets"].pc = "done"
    /\ sess[1, "statefulsets"].store = "inserted"
    /\ cfg["statefulsets"] = sess[1, "statefulsets"].cur.rv
    /\ cfg["statefulsets"] > cfg["deployments"]

\* C16: every sync cycle that was started terminates: all its sessions end
\* (by timeout, 410, transient error or an exception of the store), the
\* coordinator and poll_connection return, and the invocation holds the poll
\* lock no longer, so that the next cycle can start
C16_SyncTerminates ==
    /\ \A s \in Slots : (sync[s] = "running") ~> (sync[s] = "idle")
    /\ [](\A s \in Slots : sync[s] # "running" => lock # s)

\* C16 witness: poll_connection has returned from a cycle whose sessions
\* ended by token expiry and by an exception of the store
C16_Witness ==
    /\ cycles = 1
    /\ sync[1] = "idle"
    /\ lock = NoHolder
    /\ active = {"deployments", "statefulsets"}
    /\ sess[1, "deployments"].pc = "expired"
    /\ sess[1, "statefulsets"].pc = "crashed"

\* C17: at most one invocation of poll_connection of the connection is
\* between acquiring and releasing the poll lock, and an invocation that
\* finds the lock held returns 'skipped' without starting a sync and without
\* touching the lock
C17_AtMostOneSyncPerConnection ==
    /\ [](Cardinality({s \in slots : sync[s] = "running"}) <= 1)
    /\ [][\A s \in slots :
            (sync[s] # "skipped" /\ sync'[s] = "skipped")
            => /\ lock # NoHolder
               /\ lock' = lock
               /\ sess' = sess]_vars

\* C18: when the target namespace set of the connection is not empty, every
\* stored ChangeEvent belongs to a namespace of the set
C18_OnlyTargetNamespacesStored ==
    namespaces # {}
    => \A i \in 1..Len(events) : events[i].namespace \in namespaces

\* C19: for a Deployment whose cache entry holds (images, replicas), an
\* Updated observation with the same images and replica count is not
\* significant, writes no event and leaves the cache as it is; one with a
\* different image is significant, leaves the new image in the cache entry,
\* and once its store has returned exactly one event is stored for it
C19_DeploymentUpdateScenario ==
    \A x \in Threads :
        (x[2] = "deployments" /\ sess[x].cur.type = "MODIFIED")
        => LET o == sess[x].cur
               c == cache[x[1]]
               key == CacheKey("deployments", o)
               d == Significant("deployments", o, c)
           IN  /\ (/\ sess[x].pc = "filter"
                   /\ key \in DOMAIN c
                   /\ DOMAIN c[key] = {"images", "replicas"})
                  => /\ (/\ c[key].images = o.obj.images
                         /\ c[key].replicas = o.obj.replicas)
                        => (~d.sig /\ d.cache = c)
                     /\ c[key].images # o.obj.images
                        => (d.sig /\ d.cache[key].images = o.obj.images)
               /\ (sess[x].judged /\ ~sess[x].sig)
                  => /\ sess[x].store = "-"
                     /\ sess[x].pc \notin {"store_query", "store_insert"}
                     /\ RowsOf("deployments", o) = {}
               /\ (sess[x].judged /\ sess[x].sig
                     /\ sess[x].store \in {"inserted", "skipped"})
                  => /\ Cardinality(RowsOf("deployments", o)) = 1
                     /\ c[key].images = o.obj.images

\* C19 witness: the cache held the entry the second observation left, the
\* third observation changed the image, was stored, and the cache entry holds
\* the new image
C19_Witness ==
    \E x \in Threads :
        /\ x[2] = "deployments"
        /\ Len(hist) = 3
        /\ hist[2].type = "MODIFIED"
        /\ sess[x].cur = hist[3]
        /\ sess[x].cur.type = "MODIFIED"
        /\ hist[2].obj.images # hist[3].obj.images
        /\ hist[2].obj.replicas = hist[3].obj.replicas
        /\ sess[x].store = "inserted"
        /\ Len(events) = 3
        /\ cache[x[1]][CacheKey("deployments", hist[3])].images
             = hist[3].obj.images

\* the observation o with another value in a field no filter reads
Untracked(o) ==
    [o EXCEPT !.obj = [f \in DOMAIN o.obj \cup {"generation"} |->
                          IF f = "generation" THEN 2 ELSE o.obj[f]]]

\* the table after the loop body has run for o: the filter's decision sig,
\* then the store's duplicate check and insert
AfterStore(evs, k, o, sig) ==
    IF sig /\ ~Existing(evs, k, o) THEN SinkWrite(evs, MakeEvent(k, o))
    ELSE evs

\* the number of rows the loop adds for o followed by the same observation
\* with another untracked field
PairRows(k, o, c, evs) ==
    LET d1 == Significant(k, o, c)
        ev1 == AfterStore(evs, k, o, d1.sig)
        d2 == Significant(k, Untracked(o), d1.cache)
        ev2 == AfterStore(ev1, k, Untracked(o), d2.sig)
    IN  Len(ev2) - Len(evs)

\* C20: for every kind with a filter, an Updated observation followed by
\* one with the same token that differs in an untracked field adds at most
\* one event, and the untracked field changes neither the decision nor the
\* cache entry
C20_UntrackedFieldsNeverSignificant ==
    \A x \in Threads :
        (x[2] \notin {"roles", "rolebindings"}
           /\ sess[x].cur.type = "MODIFIED")
        => LET o == sess[x].cur
               c == cache[x[1]]
           IN  /\ Significant(x[2], Untracked(o), c) = Significant(x[2], o, c)
               /\ PairRows(x[2], o, c, events) <= 1

\* C20 witness: an Updated observation is about to be judged significant
\* and stored; the same observation with another untracked field after it
\* adds nothing
C20_Witness ==
    \E x \in Threads :
        /\ x[2] \in DiffedKinds
        /\ sess[x].pc = "filter"
        /\ sess[x].cur.type = "MODIFIED"
        /\ CacheKey(x[2], sess[x].cur) \in DOMAIN cache[x[1]]
        /\ Significant(x[2], sess[x].cur, cache[x[1]]).sig
        /\ ~Existing(events, x[2], sess[x].cur)
        /\ PairRows(x[2], sess[x].cur, cache[x[1]], events) = 1

\* C21: no ChangeEvent is stored for an observation of a secret of type
\* service-account-token, whatever the transition and the cache: the loop
\* leaves such an observation before the filter and the store
C21_DenyListedNeverStored ==
    /\ \A i \in 1..Len(events) :
          events[i].event_id[3] = "secret"
          => events[i].description.type # ServiceAccountToken
    /\ \A x \in Threads :
          (sess[x].cur # NoObs /\ Denied(x[2], sess[x].cur))
          => /\ sess[x].pc \notin {"filter", "store_query", "store_insert"}
             /\ ~sess[x].judged
             /\ sess[x].store = "-"

\* C21 witness: the Deleted observation of a service-account-token secret
\* was delivered and dropped
C21_Witness ==
    \E x \in Threads :
        /\ x[2] = "secrets"
        /\ sess[x].cur.type = "DELETED"
        /\ Denied(x[2], sess[x].cur)
        /\ sess[x].pc = "stream"
        /\ events = <<>>

\* C22: every transition of a Role or RoleBinding is passed to the store
\* without consulting or writing the cache, and once the store has returned
\* the observation has its row
C22_AccessControlAlwaysStored ==
    \A x \in Threads :
        (x[2] \in {"roles", "rolebindings"} /\ sess[x].cur # NoObs)
        => /\ cache[x[1]] = EmptyDict
           /\ \A c \in {EmptyDict, [y \in {CacheKey(x[2], sess[x].cur)} |->
                                        [rules |-> sess[x].cur.obj.rules]]} :
                 Significant(x[2], sess[x].cur, c) = Decision(TRUE, c)
           /\ sess[x].judged
              => /\ sess[x].sig
                 /\ \/ sess[x].pc \in {"store_query", "store_insert"}
                    \/ sess[x].store # "-"
           /\ sess[x].store \in {"inserted", "skipped"}
              => Cardinality(RowsOf(x[2], sess[x].cur)) = 1

\* C22 witness: an Updated observation of a Role that changed no rule was
\* stored next to the Created one
C22_Witness ==
    \E x \in Threads :
        /\ x[2] = "roles"
        /\ Len(hist) = 2
        /\ sess[x].cur = hist[2]
        /\ hist[2].type = "MODIFIED"
        /\ hist[2].obj = hist[1].obj
        /\ sess[x].store = "inserted"
        /\ Len(events) = 2

\* the cache entry e holds the reduced summary of the observation o
EntryHolds(k, e, o) ==
    CASE k \in {"deployments", "statefulsets", "daemonsets"} ->
           /\ DictGet(e, "images", NoneList) = o.obj.images
           /\ DictGet(e, "replicas", NoneInt) = o.obj.replicas
      [] k = "services" ->
           /\ DictGet(e, "type", NoneStr) = o.obj.type
           /\ DictGet(e, "ports", NoneList) = o.obj.ports
      [] k = "configmaps" ->
           DictGet(e, "data_hash", <<>>)
             = (IF o.obj.data = NoneStr THEN NoneList ELSE Md5(o.obj.data))
      [] k = "secrets" ->
           DictGet(e, "keys", NoneList) = Sorted(DOMAIN o.obj.data)
      [] k = "ingresses" ->
           DictGet(e, "hosts", NoneList) = Sorted(o.obj.hosts)

\* C23: once an observation of an identity of a diffed kind has been
\* processed, the cache entry of the identity equals the reduced summary of
\* that observation
C23_CacheHoldsLastSummary ==
    \A x \in Threads :
        (x[2] \in DiffedKinds /\ sess[x].judged)
        => /\ CacheKey(x[2], sess[x].cur) \in DOMAIN cache[x[1]]
           /\ EntryHolds(x[2], cache[x[1]][CacheKey(x[2], sess[x].cur)],
                         sess[x].cur)

\* the cache key of the object of kind k and name n
KeyOf(k, n) == CacheKey(k, [namespace |-> NamespaceOf(n), name |-> n])

\* C24: the filter step of an observation of one identity leaves the cache
\* entry of every identity of another kind as it was, also when the two
\* objects share namespace and name
C24_CacheKeyIdentifiesObject ==
    [][\A x \in Threads :
         (sess[x].pc = "filter" /\ sess'[x].pc # "filter")
         => \A k \in active \ {x[2]}, n \in names :
               /\ KeyOf(k, n) \in DOMAIN cache'[x[1]]
                    <=> KeyOf(k, n) \in DOMAIN cache[x[1]]
               /\ KeyOf(k, n) \in DOMAIN cache[x[1]]
                    => cache'[x[1]][KeyOf(k, n)] = cache[x[1]][KeyOf(k, n)]]_vars

\* C25: the checkpoint does not depend on the cache: whatever the filter
\* decides from the cache it finds, the persisted checkpoint is the token of
\* the observation in hand, and the filter and the store write neither the
\* checkpoint nor the position of the session in its stream
C25_CacheNeverAffectsCheckpoint ==
    /\ [](\A x \in Threads :
            (/\ sess[x].cur # NoObs
             /\ ~Denied(x[2], sess[x].cur)
             /\ sess[x].pc \in {"filter", "store_query", "store_insert",
                                "stream", "done", "failed", "crashed"})
            => cfg[x[2]] = sess[x].cur.rv)
    /\ [][\A x \in Threads :
            sess[x].pc \in {"filter", "store_query", "store_insert"}
            => /\ cfg' = cfg
               /\ sess'[x].cursor = sess[x].cursor
               /\ sess'[x].pending = sess[x].pending
               /\ sess'[x].cur = sess[x].cur]_vars

\* C25 witness: the same summary was judged significant by the empty cache
\* and not significant by the populated one, and the checkpoint followed
\* both observations
C25_Witness ==
    \E x \in Threads :
        /\ x[2] \in DiffedKinds
        /\ Len(hist) = 3
        /\ hist[2].type = "MODIFIED"
        /\ hist[3].type = "MODIFIED"
        /\ Len(events) = 2
        /\ sess[x].cur = hist[3]
        /\ sess[x].judged
        /\ ~sess[x].sig
        /\ sess[x].pc = "stream"
        /\ cfg[x[2]] = 3

\* C26: the cache entries written in one sync cycle of the connection are
\* still there when the next cycle starts
C26_CachePersistsAcrossCycles ==
    [][\A s \in slots :
         (sync[s] # "running" /\ sync'[s] = "running")
         => cache'[s] = cache[s]]_vars

Workloads == {"deployments", "statefulsets", "daemonsets"}

\* C27: an Updated observation of a workload whose cache entry reflects the
\* previous observation is significant if and only if its images or its
\* replica count differ from that observation
C27_WorkloadSignificantIffImagesOrReplicas ==
    \A x \in Threads :
        LET o == sess[x].cur
            c == cache[x[1]]
            id == <<x[2], o.name>>
        IN  (/\ x[2] \in Workloads
             /\ sess[x].pc = "filter"
             /\ o.type = "MODIFIED"
             /\ CacheKey(x[2], o) \in DOMAIN c
             /\ id \in DOMAIN seen[x[1]]
             /\ c[CacheKey(x[2], o)].images = seen[x[1]][id][1])
            => (Significant(x[2], o, c).sig
                  <=> Summary(x[2], o) # seen[x[1]][id])

\* the failure/backoff reasons of a Pod's containers, by container
FailureReasons(cs) ==
    [i \in 1..Len(cs) |->
        <<IF cs[i].waiting \in WaitingReasons THEN cs[i].waiting ELSE NoneStr,
          IF cs[i].terminated \in TerminatedReasons THEN cs[i].terminated
                                                     ELSE NoneStr>>]

\* C28: an Updated observation of a Pod is significant if and only if its
\* failure reasons differ from those of the previous observation of the Pod
\* or a restart count has increased; a Pod that stays in CrashLoopBackOff with
\* the same restart counts is not significant
C28_PodSignificantIffReasonsOrRestartsChange ==
    \A x \in Threads :
        LET o == sess[x].cur
            got == o.obj.container_statuses
            was == sess[x].prev
        IN  (/\ x[2] = "pods"
             /\ sess[x].judged
             /\ o.type = "MODIFIED"
             /\ sess[x].hasPrev
             /\ Len(was) = Len(got))
            => (sess[x].sig
                  <=> \/ FailureReasons(got) # FailureReasons(was)
                      \/ \E i \in 1..Len(got) :
                            got[i].restart_count > was[i].restart_count)

\* C29: an Updated observation of a Pod in which some container's restart
\* count is greater than the same container's count in the previous
\* observation of the Pod is significant, whatever the other containers' counts
C29_RestartIncreaseOfAnyContainerSignificant ==
    \A x \in Threads :
        LET o == sess[x].cur
            got == o.obj.container_statuses
            was == sess[x].prev
        IN  (/\ x[2] = "pods"
             /\ sess[x].judged
             /\ o.type = "MODIFIED"
             /\ sess[x].hasPrev
             /\ Len(was) = Len(got)
             /\ \A i \in 1..Len(got) :
                   got[i].restart_count >= was[i].restart_count
             /\ \E i \in 1..Len(got) :
                   got[i].restart_count > was[i].restart_count)
            => sess[x].sig

\* C30: a checkpoint save changes only the entry of its own kind in the token
\* map and no other field of the connection's configuration, also when the
\* configuration is updated through the API while the save is under way
C30_SaveTouchesOwnEntryOnly ==
    [][\A x \in Threads :
         (sess[x].pc = "save_write" /\ sess'[x].pc # "save_write")
         => /\ conf' = conf
            /\ \A j \in Kinds \ {x[2]} : cfg'[j] = cfg[j]]_vars

\* C31: a stored checkpoint becomes absent only through the token-expired
\* handling of its kind's session; no other operation on the connection,
\* updating it through the API included, removes it
C31_CheckpointRemovedOnlyByResync ==
    [][\A k \in Kinds :
         (cfg[k] # NoToken /\ cfg'[k] = NoToken)
         => \E s \in slots :
              /\ <<s, k>> \in DOMAIN sess
              /\ sess[s, k].pc = "save_write"
              /\ sess[s, k].ret = "expired"
              /\ sess'[s, k].pc = "expired"]_vars

\* C32: a session whose stream has ended by timeout, token expiry or a
\* transient error goes back to connecting: while further sync invocations are
\* possible, the step that reopens its subscription is enabled
C32_EndedSessionReconnects ==
    \A x \in Threads :
        (/\ sess[x].pc \in {"done", "expired", "failed"}
         /\ cycles < limit.cycles)
        => ENABLED (Next /\ sess'[x].pc = "stream")

\* a Pod's container statuses carry a failure/backoff state
CarriesFailure(cs) ==
    \E i \in 1..Len(cs) : \/ cs[i].waiting \in WaitingReasons
                          \/ cs[i].terminated \in TerminatedReasons

\* the waiting or terminated reason of the first container that has one
FirstReason(cs) ==
    LET with == {i \in 1..Len(cs) :
                    cs[i].waiting # NoneStr \/ cs[i].terminated # NoneStr}
        f == CHOOSE i \in with : \A j \in with : i <= j
    IN  IF cs[f].waiting # NoneStr THEN cs[f].waiting ELSE cs[f].terminated

\* C33: the title of a row is '[<Kind> Created] <name>', '[<Kind> Deleted]
\* <name>' or '[<Kind> Updated] <name>' by its transition, except that for an
\* Updated Pod carrying a failure/backoff state the word is the reason of the
\* first container that has one
C33_TitleFromKindTransitionName ==
    \A i \in 1..Len(events) : \A k \in Kinds :
        LET e == events[i]
        IN  e.event_id[3] = KindLabel(k)
            => e.title =
                 <<ResourceKind(k),
                   CASE e.status = "ADDED" -> "Created"
                     [] e.status = "DELETED" -> "Deleted"
                     [] OTHER ->
                          IF k = "pods"
                             /\ CarriesFailure(e.description.containers)
                          THEN FirstReason(e.description.containers)
                          ELSE "Updated",
                   e.event_id[4]>>

\* C34: when the connectivity test of sync_kubernetes fails, no watch session
\* is started and the stored checkpoints and the event table stay as they are
C34_FailedConnectStartsNothing ==
    [][\A s \in slots :
         (cycles' = cycles + 1 /\ sync'[s] = "error")
         => /\ sess' = sess
            /\ cfg' = cfg
            /\ events' = events]_vars

\* C34 witness: a poll whose connectivity test failed, after a sync that
\* stored a checkpoint and a row
C34_Witness ==
    /\ sync[1] = "error"
    /\ cycles = 2
    /\ cfg["deployments"] # NoToken
    /\ Len(events) > 0
    /\ sess[1, "deployments"].pc \in Final

\* the outcomes with which poll_connection returns after it held the lock
Returned == {"idle", "disabled", "no_module", "error"}

\* C35: on every path after the lock was acquired the lock is released before
\* poll_connection returns; last_sync is set only when the sync function
\* returned, and a return with an error leaves it unchanged
C35_LockReleasedLastSyncOnSuccess ==
    /\ [](\A s \in slots : sync[s] \in Returned => lock # s)
    /\ [][/\ last_sync' # last_sync
             => \E s \in slots : sync[s] = "running" /\ sync'[s] = "idle"
          /\ \A s \in slots :
               (cycles' = cycles + 1
                  /\ sync'[s] \in {"disabled", "no_module", "error"})
               => last_sync' = last_sync]_vars

\* C35 witness: polls have returned on the success path and then on the
\* path of the disabled connection, the lock is free and last_sync is the tick
\* of the success
C35_Witness ==
    /\ sync[1] = "disabled"
    /\ cycles = 2
    /\ lock = NoHolder
    /\ last_sync = 1
    /\ now = 2

\* C36: a sync starts only for a connection that is enabled when
\* poll_connection reads it, and sync_all_connections triggers a poll if and
\* only if the connection is enabled and has never been synced or at least
\* poll_interval seconds have passed since last_sync
C36_PollsOnlyEnabledAndDue ==
    [][/\ \A s \in slots :
            (sync[s] # "running" /\ sync'[s] = "running") => enabled
       /\ sched'.runs = sched.runs + 1
            => (sched'.triggered = 1
                  <=> /\ enabled
                      /\ \/ last_sync = NoneInt
                         \/ (now - last_sync) * TickSeconds
                              >= conf.poll_interval)]_vars

\* C36 witness: the scheduler has triggered a poll exactly poll_interval
\* seconds after the last sync
C36_Witness ==
    /\ sched.runs = 1
    /\ sched.triggered = 1
    /\ enabled
    /\ last_sync # NoneInt
    /\ (now - last_sync) * TickSeconds = conf.poll_interval

====
